---- MODULE Spec2Model ----
(***************************************************************************)
(* Rectangles in a circle: the placement engine of packing_logic.py.       *)
(*                                                                         *)
(* Numbers.  The program computes with floats in millimetres.  The model   *)
(* computes with exact fixed-point integers: a length is an integer number *)
(* of 1/Scale mm.  Scale is chosen so that every quantity the program      *)
(* derives from integer-millimetre inputs is an integer: halves (w/2),     *)
(* tenths (the offset step grid_step/10) and fifths (the rotation table    *)
(* below has cosines and sines in fifths).  Comparisons are therefore the  *)
(* comparisons of the real numbers the floats stand for.                   *)
(***************************************************************************)
EXTENDS Integers, Sequences, FiniteSets, TLC

\* packing_logic.py:344-345, the resolution of the offset search
steps_x == 10
steps_y == 10

\* denominator of the rotation table (cos and sin are multiples of 1/5)
RotDen == 5

\* model units per millimetre
Scale == 2 * RotDen * steps_x

\* packing_logic.py:113, epsilon = 1e-6 mm = 1/EpsInv mm = 1/EpsDen units
EpsInv == 1000000
EpsDen == EpsInv \div Scale

\* math.pi as a fraction
PiNum == 355
PiDen == 113

\* fixed point of the efficiency metrics: 1/FScale percent
FScale == 10 * Scale

Min(a, b) == IF a <= b THEN a ELSE b
Max(a, b) == IF a >= b THEN a ELSE b
Abs(a) == IF a >= 0 THEN a ELSE -a

SetMin(S) == CHOOSE m \in S : \A n \in S : m <= n
SetMax(S) == CHOOSE m \in S : \A n \in S : m >= n

\* Python's int(num / den) for den > 0: truncation toward zero
IntTrunc(num, den) == IF num >= 0 THEN num \div den ELSE -((-num) \div den)

(***************************************************************************)
(* Geometry primitives                                                     *)
(***************************************************************************)

Position(x, y) == [x |-> x, y |-> y]

Circle(radius, position) == [radius |-> radius, position |-> position]

Rectangle(position, width, height, rotation) ==
    [position |-> position, width |-> width, height |-> height,
     rotation |-> rotation]

\* math.cos / math.sin of the rotation in degrees, times RotDen.  The
\* angles 37 and 53 stand for atan(3/4) and atan(4/3), whose cosine and
\* sine are rational.
Angles == {0, 90, 37, 53}

CosR(rotation) ==
    CASE rotation = 0 -> 5 [] rotation = 90 -> 0
      [] rotation = 37 -> 4 [] rotation = 53 -> 3

SinR(rotation) ==
    CASE rotation = 0 -> 0 [] rotation = 90 -> 5
      [] rotation = 37 -> 3 [] rotation = 53 -> 4

\* Rectangle.get_corners: the four corners as <<x, y>>, in the order of
\* local_corners, each rotated about the centre
get_corners(rect) ==
    LET cos_r == CosR(rect.rotation)
        sin_r == SinR(rect.rotation)
        hw == rect.width \div 2
        hh == rect.height \div 2
        local_corners == << <<-hw, -hh>>, <<hw, -hh>>, <<hw, hh>>, <<-hw, hh>> >>
        corner(l) == << rect.position.x + (l[1] * cos_r - l[2] * sin_r) \div RotDen,
                        rect.position.y + (l[1] * sin_r + l[2] * cos_r) \div RotDen >>
    IN  [n \in 1..4 |-> corner(local_corners[n])]

(***************************************************************************)
(* Collision detection with the Separating Axis Theorem                    *)
(***************************************************************************)

\* v1 is an axis (components in 1/RotDen), v2 a vertex (units): the
\* projection of the vertex on the axis, in units
dot_product(v1, v2) == (v1[1] * v2[1] + v1[2] * v2[2]) \div RotDen

\* the integer square root of n, searched between lo and hi
RECURSIVE SqrtBetween(_, _, _)
SqrtBetween(n, lo, hi) ==
    IF lo >= hi THEN lo
    ELSE LET mid == (lo + hi + 1) \div 2
         IN  IF mid * mid <= n THEN SqrtBetween(n, mid, hi)
             ELSE SqrtBetween(n, lo, mid - 1)

\* normalize_vector: the unit vector of v, components in 1/RotDen
normalize_vector(v) ==
    LET length == SqrtBetween(v[1] * v[1] + v[2] * v[2],
                              Max(Abs(v[1]), Abs(v[2])), Abs(v[1]) + Abs(v[2]))
    IN  IF length = 0 THEN <<0, 0>>
        ELSE << (RotDen * v[1]) \div length, (RotDen * v[2]) \div length >>

\* get_edge_normal: the normal (-y, x) of the edge v1 -> v2, normalized
get_edge_normal(v1, v2) ==
    LET edge == << v2[1] - v1[1], v2[2] - v1[2] >>
    IN  normalize_vector(<< -edge[2], edge[1] >>)

\* project_polygon: <<min, max>> of the projections of the vertices
project_polygon(axis, vertices) ==
    LET projections == {dot_product(axis, vertices[n]) : n \in 1..Len(vertices)}
    IN  << SetMin(projections), SetMax(projections) >>

\* variant of projections_overlap that counts touching projections (gap = 0)
\* as overlapping when the tolerance is zero
projections_overlap_touching(proj1, proj2, tolerance) ==
    LET gap == Min(proj1[2], proj2[2]) - Max(proj1[1], proj2[1])
    IN  IF tolerance * EpsDen < 1
        THEN gap * EpsDen > -1
        ELSE (gap + tolerance) * EpsDen > -1

\* variant of projections_overlap whose epsilon is 1e-2 instead of 1e-6
projections_overlap_coarse_epsilon(proj1, proj2, tolerance) ==
    LET gap == Min(proj1[2], proj2[2]) - Max(proj1[1], proj2[1])
    IN  IF tolerance * EpsDen < 1
        THEN gap * EpsDen > EpsDen
        ELSE (gap + tolerance) * EpsDen > -1

\* variant of projections_overlap in which a tolerance of at least epsilon
\* raises the threshold instead of lowering it
projections_overlap_shrinking(proj1, proj2, tolerance) ==
    LET gap == Min(proj1[2], proj2[2]) - Max(proj1[1], proj2[1])
    IN  IF tolerance * EpsDen < 1
        THEN gap * EpsDen > 1
        ELSE (gap - tolerance) * EpsDen > 1

\* variant of projections_overlap that ignores the tolerance
projections_overlap_no_tolerance(proj1, proj2, tolerance) ==
    LET gap == Min(proj1[2], proj2[2]) - Max(proj1[1], proj2[1])
    IN  gap * EpsDen > 1

\* projections_overlap: gap > epsilon when tolerance < epsilon, otherwise
\* gap > -tolerance - epsilon
projections_overlap(proj1, proj2, tolerance) ==
    LET gap == Min(proj1[2], proj2[2]) - Max(proj1[1], proj2[1])
    IN  IF tolerance * EpsDen < 1
        THEN gap * EpsDen > 1
        ELSE (gap + tolerance) * EpsDen > -1

\* variant of SatAxesOverlap that ignores the tolerance on the axes of the
\* third and fourth edges
SatAxesOverlapLateNoTolerance(rect1_corners, rect2_corners, tolerance, i) ==
    LET axis1 == get_edge_normal(rect1_corners[i + 1], rect1_corners[((i + 1) % 4) + 1])
        axis2 == get_edge_normal(rect2_corners[i + 1], rect2_corners[((i + 1) % 4) + 1])
        t == IF i >= 2 THEN 0 ELSE tolerance
    IN  /\ projections_overlap(project_polygon(axis1, rect1_corners),
                               project_polygon(axis1, rect2_corners), t)
        /\ projections_overlap(project_polygon(axis2, rect1_corners),
                               project_polygon(axis2, rect2_corners), t)

\* one iteration of the loop of sat_rectangles_collide: the axis of edge i
\* of rectangle 1, then the axis of edge i of rectangle 2
SatAxesOverlap(rect1_corners, rect2_corners, tolerance, i) ==
    LET axis1 == get_edge_normal(rect1_corners[i + 1], rect1_corners[((i + 1) % 4) + 1])
        axis2 == get_edge_normal(rect2_corners[i + 1], rect2_corners[((i + 1) % 4) + 1])
    IN  /\ projections_overlap(project_polygon(axis1, rect1_corners),
                               project_polygon(axis1, rect2_corners), tolerance)
        /\ projections_overlap(project_polygon(axis2, rect1_corners),
                               project_polygon(axis2, rect2_corners), tolerance)

\* variant of sat_rectangles_collide that tests the axes of the first
\* rectangle only
sat_rectangles_collide_first_axes(rect1_corners, rect2_corners, tolerance) ==
    \A i \in 0..3 :
        LET axis1 == get_edge_normal(rect1_corners[i + 1], rect1_corners[((i + 1) % 4) + 1])
        IN  projections_overlap(project_polygon(axis1, rect1_corners),
                                project_polygon(axis1, rect2_corners), tolerance)

\* sat_rectangles_collide: TRUE iff no tested axis separates the rectangles
sat_rectangles_collide(rect1_corners, rect2_corners, tolerance) ==
    \A i \in 0..3 : SatAxesOverlap(rect1_corners, rect2_corners, tolerance, i)

rectangles_overlap(rect1, rect2, tolerance) ==
    sat_rectangles_collide(get_corners(rect1), get_corners(rect2), tolerance)

\* variant of rectangle_overlaps_any that tests the first placed rectangle
\* only
rectangle_overlaps_first(rect, placed_rectangles, tolerance) ==
    /\ placed_rectangles # << >>
    /\ rectangles_overlap(rect, placed_rectangles[1], tolerance)

rectangle_overlaps_any(rect, placed_rectangles, tolerance) ==
    \E n \in 1..Len(placed_rectangles) :
        rectangles_overlap(rect, placed_rectangles[n], tolerance)


(***************************************************************************)
(* The packer                                                              *)
(***************************************************************************)

\* RectanglePacker.__init__: the configuration fields, lengths in units
RectanglePacker(circle_diameter, rect_width, rect_height, tolerance, safe_zone) ==
    [circle_diameter |-> circle_diameter,
     rect_width |-> rect_width,
     rect_height |-> rect_height,
     radius |-> circle_diameter \div 2,
     tolerance |-> tolerance,
     safe_zone |-> safe_zone,
     effective_radius |-> (circle_diameter \div 2) - safe_zone]

\* circle of a PackingResult that has none yet
None == [none |-> TRUE]

\* PackingResult.__init__
PackingResult ==
    [rectangles |-> << >>, circle |-> None, count |-> 0, strategy |-> "",
     efficiency |-> 0, waste |-> 0, used_area |-> 0, total_area |-> 0]

\* variant of rectangle_fits_in_circle that tests against the full radius and
\* ignores the safe zone
rectangle_fits_in_full_circle(self, rect) ==
    LET corners == get_corners(rect)
    IN  \A n \in 1..4 :
            ~ ( \/ self.radius < 0
                \/ corners[n][1] * corners[n][1] + corners[n][2] * corners[n][2]
                      > self.radius * self.radius )

\* _rectangle_fits_in_circle: no corner farther from the origin than the
\* effective radius (sqrt(q) > e  iff  e < 0 or q > e*e)
rectangle_fits_in_circle(self, rect) ==
    LET corners == get_corners(rect)
    IN  \A n \in 1..4 :
            ~ ( \/ self.effective_radius < 0
                \/ corners[n][1] * corners[n][1] + corners[n][2] * corners[n][2]
                      > self.effective_radius * self.effective_radius )

\* variant of TryPlace that accepts every candidate that fits, without the
\* collision test
TryPlaceNoCollisionTest(self, filled_rects, new_rect) ==
    IF rectangle_fits_in_circle(self, new_rect)
    THEN Append(filled_rects, new_rect)
    ELSE filled_rects

\* variant of TryPlace whose collision test leaves out the rectangle
\* accepted last
TryPlaceIgnoringLast(self, filled_rects, new_rect) ==
    IF /\ rectangle_fits_in_circle(self, new_rect)
       /\ ~rectangle_overlaps_any(new_rect,
                                  SubSeq(filled_rects, 1, Len(filled_rects) - 1),
                                  self.tolerance)
    THEN Append(filled_rects, new_rect)
    ELSE filled_rects

\* the acceptance test shared by every fill pass: append the candidate
\* when it fits and collides with nothing placed so far
TryPlace(self, filled_rects, new_rect) ==
    IF /\ rectangle_fits_in_circle(self, new_rect)
       /\ ~rectangle_overlaps_any(new_rect, filled_rects, self.tolerance)
    THEN Append(filled_rects, new_rect)
    ELSE filled_rects

\* variant of GridDims whose alternate orientation is an angled one
GridDimsAngled(self, rotation) ==
    LET w == IF rotation = 90 THEN self.rect_height ELSE self.rect_width
        h == IF rotation = 90 THEN self.rect_width ELSE self.rect_height
    IN  [rotation |-> rotation,
         alt_rotation |-> 37,
         w |-> w, h |-> h, ortho_w |-> h, ortho_h |-> w,
         grid_step_x |-> w + self.tolerance,
         grid_step_y |-> h + self.tolerance,
         ortho_step_x |-> h + self.tolerance,
         ortho_step_y |-> w + self.tolerance]

\* the locals of _strict_grid_packing that depend on the rotation only
GridDims(self, rotation) ==
    LET w == IF rotation = 90 THEN self.rect_height ELSE self.rect_width
        h == IF rotation = 90 THEN self.rect_width ELSE self.rect_height
    IN  [rotation |-> rotation,
         alt_rotation |-> IF rotation = 90 THEN 0 ELSE 90,
         w |-> w, h |-> h, ortho_w |-> h, ortho_h |-> w,
         grid_step_x |-> w + self.tolerance,
         grid_step_y |-> h + self.tolerance,
         ortho_step_x |-> h + self.tolerance,
         ortho_step_y |-> w + self.tolerance]

\* variant of BaseGrid whose column and row counts are taken from the radius
\* alone, without the margin of two sides and two cells
BaseGridHalfRange(self, d, i, j) ==
    LET offset_x == (d.grid_step_x \div steps_x) * i
        offset_y == (d.grid_step_y \div steps_y) * j
        start_x == -self.radius - d.w
        start_y == -self.radius - d.h
        cols == IntTrunc(self.radius, d.grid_step_x)
        rows == IntTrunc(self.radius, d.grid_step_y)
        cell(n) ==
            LET r == (n - 1) \div cols
                c == (n - 1) % cols
                x == start_x + c * d.grid_step_x + offset_x
                y == start_y + r * d.grid_step_y + offset_y
            IN  Rectangle(Position(x + d.w \div 2, y + d.h \div 2),
                          self.rect_width, self.rect_height, d.rotation)
        fits(rect) == rectangle_fits_in_circle(self, rect)
    IN  SelectSeq([n \in 1..(rows * cols) |-> cell(n)], fits)

\* variant of BaseGrid that builds the grid columns outer, rows inner
BaseGridColumnMajor(self, d, i, j) ==
    LET offset_x == (d.grid_step_x \div steps_x) * i
        offset_y == (d.grid_step_y \div steps_y) * j
        start_x == -self.radius - d.w
        start_y == -self.radius - d.h
        cols == IntTrunc(self.circle_diameter + 2 * d.w, d.grid_step_x) + 2
        rows == IntTrunc(self.circle_diameter + 2 * d.h, d.grid_step_y) + 2
        cell(n) ==
            LET c == (n - 1) \div rows
                r == (n - 1) % rows
                x == start_x + c * d.grid_step_x + offset_x
                y == start_y + r * d.grid_step_y + offset_y
            IN  Rectangle(Position(x + d.w \div 2, y + d.h \div 2),
                          self.rect_width, self.rect_height, d.rotation)
        fits(rect) == rectangle_fits_in_circle(self, rect)
    IN  SelectSeq([n \in 1..(rows * cols) |-> cell(n)], fits)

\* the base grid of offset (i, j): rows outer, columns inner, keeping the
\* rectangles that fit
BaseGrid(self, d, i, j) ==
    LET offset_x == (d.grid_step_x \div steps_x) * i
        offset_y == (d.grid_step_y \div steps_y) * j
        start_x == -self.radius - d.w
        start_y == -self.radius - d.h
        cols == IntTrunc(self.circle_diameter + 2 * d.w, d.grid_step_x) + 2
        rows == IntTrunc(self.circle_diameter + 2 * d.h, d.grid_step_y) + 2
        cell(n) ==
            LET r == (n - 1) \div cols
                c == (n - 1) % cols
                x == start_x + c * d.grid_step_x + offset_x
                y == start_y + r * d.grid_step_y + offset_y
            IN  Rectangle(Position(x + d.w \div 2, y + d.h \div 2),
                          self.rect_width, self.rect_height, d.rotation)
        fits(rect) == rectangle_fits_in_circle(self, rect)
    IN  SelectSeq([n \in 1..(rows * cols) |-> cell(n)], fits)

\* the bounds tracked while the base grid is generated (edges of the
\* accepted rectangles); only read when the grid is not empty
GridBounds(d, current_rects) ==
    LET xs == {current_rects[n].position.x : n \in 1..Len(current_rects)}
        ys == {current_rects[n].position.y : n \in 1..Len(current_rects)}
    IN  [min_x |-> SetMin(xs) - d.w \div 2, max_x |-> SetMax(xs) + d.w \div 2,
         min_y |-> SetMin(ys) - d.h \div 2, max_y |-> SetMax(ys) + d.h \div 2]


\* the inner for-loop of the right and left fills: candidates of the
\* alternate orientation in the column curr_x, for k in range(k, k_end)
RECURSIVE ScanY(_, _, _, _, _, _, _)
ScanY(self, d, b, filled_rects, curr_x, k, k_end) ==
    IF k >= k_end THEN filled_rects
    ELSE LET start_scan_y == b.min_y + d.ortho_h \div 2
             curr_y == start_scan_y + k * d.ortho_step_y
             new_rect == Rectangle(Position(curr_x, curr_y), self.rect_width,
                                   self.rect_height, d.alt_rotation)
             placed == TryPlace(self, filled_rects, new_rect)
         IN  IF Len(placed) > Len(filled_rects)
             THEN ScanY(self, d, b, placed, curr_x, k + 1, k_end)
             ELSE ScanY(self, d, b, filled_rects, curr_x, k + 1, k_end)

\* the inner for-loop of the top and bottom fills: candidates of the
\* alternate orientation in the row curr_y, for k in range(k, k_end)
RECURSIVE ScanX(_, _, _, _, _, _, _)
ScanX(self, d, b, filled_rects, curr_y, k, k_end) ==
    IF k >= k_end THEN filled_rects
    ELSE LET start_scan_x == b.min_x + d.ortho_w \div 2
             curr_x == start_scan_x + k * d.ortho_step_x
             new_rect == Rectangle(Position(curr_x, curr_y), self.rect_width,
                                   self.rect_height, d.alt_rotation)
             placed == TryPlace(self, filled_rects, new_rect)
         IN  IF Len(placed) > Len(filled_rects)
             THEN ScanX(self, d, b, placed, curr_y, k + 1, k_end)
             ELSE ScanX(self, d, b, filled_rects, curr_y, k + 1, k_end)

\* k_start and k_end of a column scan
KStartY(self, d, b) ==
    IntTrunc(-self.radius - (b.min_y + d.ortho_h \div 2), d.ortho_step_y) - 1
KEndY(self, d, b) ==
    IntTrunc(self.radius - (b.min_y + d.ortho_h \div 2), d.ortho_step_y) + 2

\* k_start and k_end of a row scan
KStartX(self, d, b) ==
    IntTrunc(-self.radius - (b.min_x + d.ortho_w \div 2), d.ortho_step_x) - 1
KEndX(self, d, b) ==
    IntTrunc(self.radius - (b.min_x + d.ortho_w \div 2), d.ortho_step_x) + 2

\* 1. Fill Right: the while loop over curr_x, from max_x outward
RECURSIVE FillRight(_, _, _, _, _)
FillRight(self, d, b, filled_rects, curr_x) ==
    IF curr_x - d.ortho_w \div 2 < self.radius
    THEN FillRight(self, d, b,
                   ScanY(self, d, b, filled_rects, curr_x,
                         KStartY(self, d, b), KEndY(self, d, b)),
                   curr_x + d.ortho_step_x)
    ELSE filled_rects

\* 2. Fill Left: the while loop over curr_x, from min_x outward
RECURSIVE FillLeft(_, _, _, _, _)
FillLeft(self, d, b, filled_rects, curr_x) ==
    IF curr_x + d.ortho_w \div 2 > -self.radius
    THEN FillLeft(self, d, b,
                  ScanY(self, d, b, filled_rects, curr_x,
                        KStartY(self, d, b), KEndY(self, d, b)),
                  curr_x - d.ortho_step_x)
    ELSE filled_rects

\* 3. Fill Top: the while loop over curr_y, from max_y outward
RECURSIVE FillTop(_, _, _, _, _)
FillTop(self, d, b, filled_rects, curr_y) ==
    IF curr_y - d.ortho_h \div 2 < self.radius
    THEN FillTop(self, d, b,
                 ScanX(self, d, b, filled_rects, curr_y,
                       KStartX(self, d, b), KEndX(self, d, b)),
                 curr_y + d.ortho_step_y)
    ELSE filled_rects

\* 4. Fill Bottom: the while loop over curr_y, from min_y outward
RECURSIVE FillBottom(_, _, _, _, _)
FillBottom(self, d, b, filled_rects, curr_y) ==
    IF curr_y + d.ortho_h \div 2 > -self.radius
    THEN FillBottom(self, d, b,
                    ScanX(self, d, b, filled_rects, curr_y,
                          KStartX(self, d, b), KEndX(self, d, b)),
                    curr_y - d.ortho_step_y)
    ELSE filled_rects

\* variant of CenterTop whose column is the vertical diameter of the circle
RECURSIVE CenterTopAbsoluteCentre(_, _, _, _, _)
CenterTopAbsoluteCentre(self, d, b, filled_rects, curr_y) ==
    IF curr_y + d.h \div 2 <= self.radius
    THEN LET new_rect == Rectangle(Position(0, curr_y),
                                   self.rect_width, self.rect_height, d.rotation)
             placed == TryPlace(self, filled_rects, new_rect)
         IN  IF Len(placed) > Len(filled_rects)
             THEN CenterTopAbsoluteCentre(self, d, b, placed,
                                          curr_y + d.grid_step_y)
             ELSE filled_rects
    ELSE filled_rects

\* 5. Top Center: base-orientation rectangles stacked upward on the centre
\* line of the grid bounds; stops at the first candidate that is rejected
RECURSIVE CenterTop(_, _, _, _, _)
CenterTop(self, d, b, filled_rects, curr_y) ==
    IF curr_y + d.h \div 2 <= self.radius
    THEN LET grid_center_x == (b.min_x + b.max_x) \div 2
             new_rect == Rectangle(Position(grid_center_x, curr_y),
                                   self.rect_width, self.rect_height, d.rotation)
             placed == TryPlace(self, filled_rects, new_rect)
         IN  IF Len(placed) > Len(filled_rects)
             THEN CenterTop(self, d, b, placed, curr_y + d.grid_step_y)
             ELSE filled_rects
    ELSE filled_rects

\* Bottom Center: the same, downward
RECURSIVE CenterBottom(_, _, _, _, _)
CenterBottom(self, d, b, filled_rects, curr_y) ==
    IF curr_y - d.h \div 2 >= -self.radius
    THEN LET grid_center_x == (b.min_x + b.max_x) \div 2
             new_rect == Rectangle(Position(grid_center_x, curr_y),
                                   self.rect_width, self.rect_height, d.rotation)
             placed == TryPlace(self, filled_rects, new_rect)
         IN  IF Len(placed) > Len(filled_rects)
             THEN CenterBottom(self, d, b, placed, curr_y - d.grid_step_y)
             ELSE filled_rects
    ELSE filled_rects

\* the fill passes of one offset, in program order.  st is the sequence of
\* the lists so far (the base grid first); each pass extends the last list
\* and its outcome is appended.
StageRight(self, d, b, st) ==
    Append(st, FillRight(self, d, b, st[Len(st)],
                         b.max_x + self.tolerance + d.ortho_w \div 2))

StageLeft(self, d, b, st) ==
    Append(st, FillLeft(self, d, b, st[Len(st)],
                        b.min_x - self.tolerance - d.ortho_w \div 2))

StageTop(self, d, b, st) ==
    Append(st, FillTop(self, d, b, st[Len(st)],
                       b.max_y + self.tolerance + d.ortho_h \div 2))

StageBottom(self, d, b, st) ==
    Append(st, FillBottom(self, d, b, st[Len(st)],
                          b.min_y - self.tolerance - d.ortho_h \div 2))

StageCenterTop(self, d, b, st) ==
    Append(st, CenterTop(self, d, b, st[Len(st)],
                         b.max_y + self.tolerance + d.h \div 2))

StageCenterBottom(self, d, b, st) ==
    Append(st, CenterBottom(self, d, b, st[Len(st)],
                            b.min_y - self.tolerance - d.h \div 2))

\* the lists of a complete sequence of passes, by name
StagesRecord(st) ==
    [base |-> st[1], right |-> st[2], left |-> st[3], top |-> st[4],
     bottom |-> st[5], center_top |-> st[6], center_bottom |-> st[7]]

\* filled_rects = list(current_rects) followed by the six passes: the list
\* as it stands after each pass
FillStages(self, d, b, current_rects) ==
    StagesRecord(
        StageCenterBottom(self, d, b,
            StageCenterTop(self, d, b,
                StageBottom(self, d, b,
                    StageTop(self, d, b,
                        StageLeft(self, d, b,
                            StageRight(self, d, b, << current_rects >>)))))))

\* variant of GapFillRow that appends the rectangle of rotation 90 when the
\* one of rotation 0 passed the test
RECURSIVE GapFillRowAppendsOther(_, _, _, _)
GapFillRowAppendsOther(self, filled_rects, x, y) ==
    IF x <= self.radius
    THEN LET scan_step == Min(self.rect_width, self.rect_height) \div 2
             rect0 == Rectangle(Position(x, y), self.rect_width, self.rect_height, 0)
             rect90 == Rectangle(Position(x, y), self.rect_width, self.rect_height, 90)
             with0 == TryPlace(self, filled_rects, rect0)
             with90 == TryPlace(self, filled_rects, rect90)
         IN  IF Len(with0) > Len(filled_rects)
             THEN GapFillRowAppendsOther(self, Append(filled_rects, rect90),
                                         x + scan_step, y)
             ELSE IF Len(with90) > Len(filled_rects)
                  THEN GapFillRowAppendsOther(self, with90, x + scan_step, y)
                  ELSE GapFillRowAppendsOther(self, filled_rects, x + scan_step, y)
    ELSE filled_rects

\* the inner while loop of _systematic_gap_fill: one scan row, x from -radius
RECURSIVE GapFillRow(_, _, _, _)
GapFillRow(self, filled_rects, x, y) ==
    IF x <= self.radius
    THEN LET scan_step == Min(self.rect_width, self.rect_height) \div 2
             rect0 == Rectangle(Position(x, y), self.rect_width, self.rect_height, 0)
             rect90 == Rectangle(Position(x, y), self.rect_width, self.rect_height, 90)
             with0 == TryPlace(self, filled_rects, rect0)
             with90 == TryPlace(self, filled_rects, rect90)
         IN  IF Len(with0) > Len(filled_rects)
             THEN GapFillRow(self, with0, x + scan_step, y)
             ELSE IF Len(with90) > Len(filled_rects)
                  THEN GapFillRow(self, with90, x + scan_step, y)
                  ELSE GapFillRow(self, filled_rects, x + scan_step, y)
    ELSE filled_rects

\* the outer while loop of _systematic_gap_fill: rows, y from -radius
RECURSIVE GapFillRows(_, _, _)
GapFillRows(self, filled_rects, y) ==
    IF y <= self.radius
    THEN LET row == GapFillRow(self, filled_rects, -self.radius, y)
         IN  IF Len(row) >= Len(filled_rects)
             THEN GapFillRows(self, row,
                              y + Min(self.rect_width, self.rect_height) \div 2)
             ELSE filled_rects
    ELSE filled_rects

\* variant of systematic_gap_fill that returns the rectangles it accepted
\* in front of the placed ones
systematic_gap_fill_added_first(self, placed_rectangles) ==
    LET filled_rects == GapFillRows(self, placed_rectangles, -self.radius)
    IN  SubSeq(filled_rects, Len(placed_rectangles) + 1, Len(filled_rects))
            \o placed_rectangles

\* _systematic_gap_fill: scans the circle on a copy of the placed list
systematic_gap_fill(self, placed_rectangles) ==
    GapFillRows(self, placed_rectangles, -self.radius)

\* _validate_no_overlaps: no pair i < j collides under the tolerance
validate_no_overlaps(self, rectangles) ==
    \A i \in 1..Len(rectangles) : \A j \in (i + 1)..Len(rectangles) :
        ~rectangles_overlap(rectangles[i], rectangles[j], self.tolerance)

\* math.pi * radius ** 2
CircleArea(radius) == (PiNum * radius * radius) \div PiDen

\* variant of calculate_efficiency whose else branch leaves the waste at its
\* initial 0.0
calculate_efficiency_waste_unset(self, result) ==
    IF result.circle = None THEN result
    ELSE LET total_area == CircleArea(result.circle.radius)
             used_area == Len(result.rectangles) * (self.rect_width * self.rect_height)
             efficiency == IF total_area > 0
                           THEN ((used_area * FScale) \div total_area) * 100
                           ELSE 0
             waste == IF total_area > 0 THEN 100 * FScale - efficiency
                      ELSE result.waste
         IN  [result EXCEPT !.total_area = total_area, !.used_area = used_area,
                            !.efficiency = efficiency, !.waste = waste]

\* variant of calculate_efficiency that returns early on an empty result,
\* leaving the metrics at their initial 0.0
calculate_efficiency_skip_empty(self, result) ==
    IF result.circle = None \/ result.rectangles = << >> THEN result
    ELSE LET total_area == CircleArea(result.circle.radius)
             used_area == Len(result.rectangles) * (self.rect_width * self.rect_height)
             efficiency == IF total_area > 0
                           THEN ((used_area * FScale) \div total_area) * 100
                           ELSE 0
             waste == IF total_area > 0 THEN 100 * FScale - efficiency
                      ELSE 100 * FScale
         IN  [result EXCEPT !.total_area = total_area, !.used_area = used_area,
                            !.efficiency = efficiency, !.waste = waste]

\* variant of calculate_efficiency that takes the circle area from the
\* effective radius
calculate_efficiency_effective(self, result) ==
    IF result.circle = None THEN result
    ELSE LET total_area == CircleArea(self.effective_radius)
             used_area == Len(result.rectangles) * (self.rect_width * self.rect_height)
             efficiency == IF total_area > 0
                           THEN ((used_area * FScale) \div total_area) * 100
                           ELSE 0
             waste == IF total_area > 0 THEN 100 * FScale - efficiency
                      ELSE 100 * FScale
         IN  [result EXCEPT !.total_area = total_area, !.used_area = used_area,
                            !.efficiency = efficiency, !.waste = waste]

\* _calculate_efficiency: the result with its metrics filled in
calculate_efficiency(self, result) ==
    IF result.circle = None THEN result
    ELSE LET total_area == CircleArea(result.circle.radius)
             used_area == Len(result.rectangles) * (self.rect_width * self.rect_height)
             efficiency == IF total_area > 0
                           THEN ((used_area * FScale) \div total_area) * 100
                           ELSE 0
             waste == IF total_area > 0 THEN 100 * FScale - efficiency
                      ELSE 100 * FScale
         IN  [result EXCEPT !.total_area = total_area, !.used_area = used_area,
                            !.efficiency = efficiency, !.waste = waste]


(***************************************************************************)
(* The state machine: find_optimal_packing, called on one packer           *)
(***************************************************************************)

\* bounds of the inputs, in millimetres: the circle diameter, the longer
\* side of the rectangle, the largest tolerance and the largest safe zone
\* (MaxSafeZone >= MaxDiameter/2 makes the effective radius negative);
\* and the number of calls of find_optimal_packing on the packer
MaxDiameter == 7
MaxSide == 3
MaxTolerance == 1
MaxSafeZone == 4
MaxRuns == 2

VARIABLES
    self,           \* the packer: its configuration fields
    pc,             \* position in find_optimal_packing
    rotation,       \* argument of the running _strict_grid_packing call
    i, j,           \* offset indices of the running call
    best_rects,     \* best list of the running call
    max_count,      \* its recorded length
    results,        \* candidates of the running find_optimal_packing
    valid_results,  \* the candidates that passed _validate_no_overlaps
    best,           \* the candidate chosen by the running call
    returned,       \* the results returned so far, one per call
    best_marks,     \* history: length of best_rects after each fill pass
    phases,         \* history: the marks of each candidate in results
    args,           \* arguments of a direct call of rectangles_overlap
    ret             \* its results

vars == << self, pc, rotation, i, j, best_rects, max_count, results,
           valid_results, best, returned, best_marks, phases, args, ret >>

packer_vars == << self, pc, rotation, i, j, best_rects, max_count, results,
                  valid_results, best, returned, best_marks, phases >>

\* the shapes whose longer side is MaxSide, in both orientations
Shapes == { s \in (1..MaxSide) \X (1..MaxSide) : Max(s[1], s[2]) = MaxSide }

\* the packers of the bounded configurations (caller-enforced constraints:
\* diameter, width, height > 0, tolerance, safe_zone >= 0)
Packers ==
    { RectanglePacker(MaxDiameter * Scale, s[1] * Scale, s[2] * Scale,
                      T * Scale, S * Scale) :
        s \in Shapes, T \in 0..MaxTolerance, S \in 0..MaxSafeZone }

NoMarks ==
    [base |-> 0, right |-> 0, left |-> 0, top |-> 0, bottom |-> 0,
     center_top |-> 0, center_bottom |-> 0]

NoArgs == [none |-> TRUE]
NoRet == [ab |-> << >>, ba |-> << >>]

Init ==
    /\ self \in Packers
    /\ pc = "idle"
    /\ rotation = 0
    /\ i = 0
    /\ j = 0
    /\ best_rects = << >>
    /\ max_count = 0
    /\ results = << >>
    /\ valid_results = << >>
    /\ best = PackingResult
    /\ returned = << >>
    /\ best_marks = NoMarks
    /\ phases = << >>
    /\ args = NoArgs
    /\ ret = NoRet

\* f"Strict Grid (Rot: {rotation} deg + Fill)"
StrategyLabel(rot) ==
    IF rot = 0 THEN "Strict Grid (Rot: 0 deg + Fill)"
    ELSE "Strict Grid (Rot: 90 deg + Fill)"

\* the outcome of the fill passes when the base grid is empty
NoStages == [none |-> TRUE]

\* the base grid of the offset (oi, oj) and the fill passes on it
OffsetStages(packer, rot, oi, oj) ==
    LET d == GridDims(packer, rot)
        current_rects == BaseGrid(packer, d, oi, oj)
    IN  IF current_rects = << >> THEN NoStages
        ELSE FillStages(packer, d, GridBounds(d, current_rects), current_rects)

\* variant of OffsetBody whose comparisons are not strict, so that the last
\* offset of maximal length is kept
OffsetBodyLastWins(stages, best_in, max_in, marks_in) ==
    IF stages = NoStages THEN << best_in, max_in, marks_in >>
    ELSE LET first == Len(stages.bottom) >= max_in
             max_1 == IF first THEN Len(stages.bottom) ELSE max_in
             filled_rects == stages.center_bottom
             second == Len(filled_rects) >= max_1
         IN  << IF first \/ second THEN filled_rects ELSE best_in,
                IF second THEN Len(filled_rects) ELSE max_1,
                IF first \/ second
                THEN [k \in DOMAIN stages |-> Len(stages[k])]
                ELSE marks_in >>

\* the two updates of the best list in the body of the offset loop: the
\* new best_rects, max_count and marks.  best_rects = filled_rects makes
\* both names the same list, so the centre strips extend a list recorded
\* as best before them.
OffsetBody(stages, best_in, max_in, marks_in) ==
    IF stages = NoStages THEN << best_in, max_in, marks_in >>
    ELSE LET first == Len(stages.bottom) > max_in
             max_1 == IF first THEN Len(stages.bottom) ELSE max_in
             filled_rects == stages.center_bottom
             second == Len(filled_rects) > max_1
         IN  << IF first \/ second THEN filled_rects ELSE best_in,
                IF second THEN Len(filled_rects) ELSE max_1,
                IF first \/ second
                THEN [k \in DOMAIN stages |-> Len(stages[k])]
                ELSE marks_in >>

\* the locals of the offset search after one iteration
OffsetUpdate(out) ==
    /\ best_rects' = out[1]
    /\ max_count' = out[2]
    /\ best_marks' = out[3]

\* variant of FindOptimalPacking in which the locals of the offset search
\* survive from the previous call
FindOptimalPackingStaleLocals ==
    /\ pc \in {"idle", "done"}
    /\ Len(returned) < MaxRuns
    /\ pc' = "grid"
    /\ results' = << >>
    /\ valid_results' = << >>
    /\ best' = PackingResult
    /\ rotation' = 0
    /\ i' = 0
    /\ j' = 0
    /\ phases' = << >>
    /\ UNCHANGED << self, returned, args, ret, best_rects, max_count, best_marks >>

\* find_optimal_packing is called: the first _strict_grid_packing begins
FindOptimalPacking ==
    /\ pc \in {"idle", "done"}
    /\ Len(returned) < MaxRuns
    /\ pc' = "grid"
    /\ results' = << >>
    /\ valid_results' = << >>
    /\ best' = PackingResult
    /\ rotation' = 0
    /\ i' = 0
    /\ j' = 0
    /\ best_rects' = << >>
    /\ max_count' = 0
    /\ best_marks' = NoMarks
    /\ phases' = << >>
    /\ UNCHANGED << self, returned, args, ret >>

\* variant of OffsetStep whose inner loop index wraps around without the
\* outer index advancing
OffsetStepNoCarry ==
    /\ pc = "grid"
    /\ i < steps_x
    /\ OffsetUpdate(OffsetBody(OffsetStages(self, rotation, i, j),
                               best_rects, max_count, best_marks))
    /\ j' = (j + 1) % steps_y
    /\ UNCHANGED << self, pc, rotation, i, results, valid_results, best,
                    returned, phases, args, ret >>

\* one iteration of the offset loop of _strict_grid_packing
OffsetStep ==
    /\ pc = "grid"
    /\ i < steps_x
    /\ OffsetUpdate(OffsetBody(OffsetStages(self, rotation, i, j),
                               best_rects, max_count, best_marks))
    /\ j' = (j + 1) % steps_y
    /\ i' = IF j + 1 = steps_y THEN i + 1 ELSE i
    /\ UNCHANGED << self, pc, rotation, results, valid_results, best, returned,
                    phases, args, ret >>

\* result.rectangles = best_rects; result.count = max_count
NewResult(packer, rot, rects, count) ==
    [PackingResult EXCEPT
        !.circle = Circle(packer.radius, Position(0, 0)),
        !.strategy = StrategyLabel(rot),
        !.rectangles = rects,
        !.count = count]

\* max_count = len(best_rects) after the systematic gap fill
GapFilledResult(packer, rot, filled) ==
    NewResult(packer, rot, filled, Len(filled))

\* variant of StrictGridResult that does not refresh the count after the
\* systematic gap fill
StrictGridResultStaleCount(packer, rot, best_in, max_in) ==
    IF best_in # << >>
    THEN NewResult(packer, rot, systematic_gap_fill(packer, best_in), max_in)
    ELSE NewResult(packer, rot, best_in, max_in)

\* the result of _strict_grid_packing once the offset loop is over
StrictGridResult(packer, rot, best_in, max_in) ==
    IF best_in # << >>
    THEN GapFilledResult(packer, rot, systematic_gap_fill(packer, best_in))
    ELSE NewResult(packer, rot, best_in, max_in)

\* _strict_grid_packing returns its result; after the call for 0 the call
\* for 90 begins with fresh locals
StrictGridReturn ==
    /\ pc = "grid"
    /\ i = steps_x
    /\ results' = Append(results, StrictGridResult(self, rotation, best_rects, max_count))
    /\ phases' = Append(phases, best_marks)
    /\ IF rotation = 0
       THEN /\ rotation' = 90
            /\ pc' = "grid"
            /\ i' = 0
            /\ j' = 0
            /\ best_rects' = << >>
            /\ max_count' = 0
            /\ best_marks' = NoMarks
       ELSE /\ pc' = "select"
            /\ UNCHANGED << rotation, i, j, best_rects, max_count, best_marks >>
    /\ UNCHANGED << self, valid_results, best, returned, args, ret >>

\* variant of MaxByCount that takes the last element of maximal count
MaxByCountLast(rs) ==
    LET n == CHOOSE n \in 1..Len(rs) :
                /\ \A m \in 1..Len(rs) : rs[m].count <= rs[n].count
                /\ \A m \in (n + 1)..Len(rs) : rs[m].count < rs[n].count
    IN  rs[n]

\* max(rs, key=lambda r: r.count): the first element of maximal count
MaxByCount(rs) ==
    LET n == CHOOSE n \in 1..Len(rs) :
                /\ \A m \in 1..Len(rs) : rs[m].count <= rs[n].count
                /\ \A m \in 1..(n - 1) : rs[m].count < rs[n].count
    IN  rs[n]

\* the candidates that pass the final validation, in order
ValidResults(packer, rs) ==
    LET ok(r) == validate_no_overlaps(packer, r.rectangles)
    IN  SelectSeq(rs, ok)

\* the choice of find_optimal_packing: best of the valid candidates, or of
\* all candidates when none is valid
ChooseBest(rs, valid) ==
    IF valid # << >> THEN MaxByCount(valid)
    ELSE IF rs # << >> THEN MaxByCount(rs) ELSE PackingResult

\* validation of the two candidates and choice of the best
SelectBest ==
    /\ pc = "select"
    /\ valid_results' = ValidResults(self, results)
    /\ best' = ChooseBest(results, valid_results')
    /\ pc' = "efficiency"
    /\ UNCHANGED << self, rotation, i, j, best_rects, max_count, results,
                    returned, best_marks, phases, args, ret >>

\* the metrics are computed on the chosen result, which is returned
ReturnBest ==
    /\ pc = "efficiency"
    /\ best' = calculate_efficiency(self, best)
    /\ returned' = Append(returned, best')
    /\ pc' = "done"
    /\ UNCHANGED << self, rotation, i, j, best_rects, max_count, results,
                    valid_results, best_marks, phases, args, ret >>

Next ==
    \/ FindOptimalPacking
    \/ OffsetStep
    \/ StrictGridReturn
    \/ SelectBest
    \/ ReturnBest

Spec == Init /\ [][Next]_vars

(***************************************************************************)
(* Direct calls of rectangles_overlap on bounded pairs of rectangles       *)
(***************************************************************************)

\* bounds of the pairs: sides in millimetres, centre offsets and tolerance
\* in half millimetres
MaxSatSide == 2
MaxSatPos == 4
MaxSatTol == 2

HalfMm == Scale \div 2

\* rectangles of height 1 mm and width up to MaxSatSide, at any angle of the
\* rotation table
SatRects(positions) ==
    { Rectangle(pos, W * Scale, Scale, rot) :
        pos \in positions, W \in 1..MaxSatSide, rot \in Angles }

SatPositions ==
    { Position(x * HalfMm, y * HalfMm) : x \in 0..MaxSatPos, y \in 0..MaxSatPos }

OverlapArgs ==
    { [rect1 |-> r1, rect2 |-> r2, tolerance |-> T * HalfMm] :
        r1 \in SatRects({Position(0, 0)}), r2 \in SatRects(SatPositions),
        T \in 0..MaxSatTol }

InitSat ==
    /\ args \in OverlapArgs
    /\ ret = NoRet
    /\ self = RectanglePacker(MaxDiameter * Scale, MaxSide * Scale,
                              MaxSide * Scale, 0, 0)
    /\ pc = "call"
    /\ rotation = 0
    /\ i = 0
    /\ j = 0
    /\ best_rects = << >>
    /\ max_count = 0
    /\ results = << >>
    /\ valid_results = << >>
    /\ best = PackingResult
    /\ returned = << >>
    /\ best_marks = NoMarks
    /\ phases = << >>

\* rectangles_overlap(rect1, rect2, tolerance) is called
OverlapAB ==
    /\ pc = "call"
    /\ ret.ab = << >>
    /\ ret' = [ret EXCEPT !.ab = << rectangles_overlap(args.rect1, args.rect2,
                                                       args.tolerance) >>]
    /\ UNCHANGED << args, packer_vars >>

\* rectangles_overlap(rect2, rect1, tolerance) is called
OverlapBA ==
    /\ pc = "call"
    /\ ret.ba = << >>
    /\ ret' = [ret EXCEPT !.ba = << rectangles_overlap(args.rect2, args.rect1,
                                                       args.tolerance) >>]
    /\ UNCHANGED << args, packer_vars >>

NextSat == OverlapAB \/ OverlapBA

SpecSat == InitSat /\ [][NextSat]_vars


(***************************************************************************)
(* Properties                                                              *)
(***************************************************************************)

\* every list of rectangles the run holds: the list under construction,
\* the candidates and the returned results
HeldLists ==
    {best_rects} \cup {results[n].rectangles : n \in 1..Len(results)}
                 \cup {returned[n].rectangles : n \in 1..Len(returned)}

RotationsOf(rects) == {rects[n].rotation : n \in 1..Len(rects)}

\* C1: in every returned result no pair of distinct rectangles (k < l) is
\* reported as overlapping by rectangles_overlap under the configured
\* tolerance.
C1_NoOverlap ==
    \A n \in 1..Len(returned) :
        LET rects == returned[n].rectangles
        IN  \A k \in 1..Len(rects) : \A l \in (k + 1)..Len(rects) :
                rectangles_overlap(rects[k], rects[l], self.tolerance) = FALSE

\* C2: every corner of every rectangle of a returned result (and of every
\* candidate and of the list under construction, whatever pass accepted
\* it) lies at distance <= effective_radius from the origin.
C2_Containment ==
    \A rects \in HeldLists : \A k \in 1..Len(rects) :
        LET corners == get_corners(rects[k])
        IN  \A c \in 1..4 :
                /\ self.effective_radius >= 0
                /\ corners[c][1] * corners[c][1] + corners[c][2] * corners[c][2]
                     <= self.effective_radius * self.effective_radius

\* a result was returned under a positive safe zone that holds rectangles
\* of the base grid and of an edge fill
C2_Witness ==
    /\ pc = "done"
    /\ self.safe_zone > 0
    /\ \E n \in 1..Len(returned) : RotationsOf(returned[n].rectangles) = {0, 90}

\* C3: every rectangle of a returned result (and of every candidate and of
\* the list under construction) has rotation exactly 0 or 90.
C3_Orientation ==
    \A rects \in HeldLists : RotationsOf(rects) \subseteq {0, 90}

\* a result was returned that holds rectangles of both orientations, and
\* so does the candidate built on the base orientation 90
C3_Witness ==
    /\ pc = "done"
    /\ RotationsOf(returned[1].rectangles) = {0, 90}
    /\ \E n \in 1..Len(results) :
           /\ results[n].strategy = StrategyLabel(90)
           /\ RotationsOf(results[n].rectangles) = {0, 90}

\* C4: at least one of the two candidates passes _validate_no_overlaps,
\* so the fallback branch is never taken.
C4_SomeCandidateValid ==
    pc \in {"efficiency", "done"} => valid_results # << >>

\* C5: the returned result passed the all-pairs validation and its count
\* is >= the count of every candidate that passed it.
C5_ReturnsBestValidated ==
    pc \in {"efficiency", "done"} =>
        /\ validate_no_overlaps(self, best.rectangles)
        /\ \A n \in 1..Len(results) :
               validate_no_overlaps(self, results[n].rectangles)
                   => results[n].count <= best.count

\* C6: when effective_radius <= 0 every returned result has an empty
\* rectangle sequence, count 0, efficiency 0 and waste 100.
C6_DegenerateSafeZone ==
    self.effective_radius <= 0 =>
        \A n \in 1..Len(returned) :
            /\ returned[n].rectangles = << >>
            /\ returned[n].count = 0
            /\ returned[n].efficiency = 0
            /\ returned[n].waste = 100 * FScale

\* a call has returned on a packer whose safe zone covers the whole radius
C6_Witness ==
    /\ pc = "done"
    /\ self.circle_diameter > 0
    /\ 2 * self.safe_zone >= self.circle_diameter
    /\ Len(returned) >= 1

\* C7: in every result of _strict_grid_packing and of find_optimal_packing
\* count equals the length of the rectangles sequence.
C7_CountIsLength ==
    /\ \A n \in 1..Len(results) : results[n].count = Len(results[n].rectangles)
    /\ \A n \in 1..Len(returned) : returned[n].count = Len(returned[n].rectangles)

\* a candidate whose best list was extended by a centre strip after the
\* edge fills
C7_Witness ==
    \E n \in 1..Len(results) :
        /\ phases[n].center_bottom > phases[n].bottom
        /\ Len(results[n].rectangles) >= phases[n].center_bottom

\* C8: in every returned result used_area = count * rect_width *
\* rect_height, total_area = pi * (circle_diameter / 2)^2 (full radius),
\* efficiency = used_area / total_area * 100, waste = 100 - efficiency.
C8_EfficiencyIdentity ==
    \A n \in 1..Len(returned) :
        LET r == returned[n]
        IN  /\ r.used_area = r.count * self.rect_width * self.rect_height
            /\ r.total_area = CircleArea(self.circle_diameter \div 2)
            /\ r.efficiency = ((r.used_area * FScale) \div r.total_area) * 100
            /\ r.waste = 100 * FScale - r.efficiency

\* a non-empty result was returned under a positive safe zone
C8_Witness ==
    /\ pc = "done"
    /\ self.safe_zone > 0
    /\ \E n \in 1..Len(returned) : returned[n].count >= 2

C10_Symmetry ==
    (ret.ab # << >> /\ ret.ba # << >>) => ret.ab = ret.ba

\* both calls were made on an axis-aligned and an angled rectangle that
\* collide
C10_Witness ==
    /\ ret.ab = << TRUE >>
    /\ ret.ba # << >>
    /\ args.rect1.rotation = 0
    /\ args.rect2.rotation = 37

(***************************************************************************)
(* Direct calls of rectangles_overlap with zero tolerance on rectangles    *)
(* that touch or nearly touch                                              *)
(***************************************************************************)

\* bound of the fine offsets around the half-millimetre positions, in units
\* (1 unit = 0.01 mm)
MaxFine == 1

TenthMm == Scale \div 10

\* axis-aligned pairs: the second rectangle on the half-millimetre grid,
\* shifted in x by up to MaxFine units
TouchArgsAligned ==
    { [rect1 |-> Rectangle(Position(0, 0), W1 * Scale, Scale, rot1),
       rect2 |-> Rectangle(Position(x * HalfMm + e, y * HalfMm), W2 * Scale,
                           Scale, rot2),
       tolerance |-> 0] :
        W1 \in 1..MaxSatSide, rot1 \in {0, 90}, W2 \in 1..MaxSatSide,
        rot2 \in {0, 90}, x \in 0..MaxSatPos, y \in 0..MaxSatPos,
        e \in (-MaxFine)..MaxFine }

\* an axis-aligned and an angled rectangle, the second on the grid of
\* tenths of a millimetre (where its projections are whole units)
TouchArgsAngled ==
    { [rect1 |-> Rectangle(Position(0, 0), W1 * Scale, Scale, 0),
       rect2 |-> Rectangle(Position(x * TenthMm, y * TenthMm), W2 * Scale,
                           Scale, rot2),
       tolerance |-> 0] :
        W1 \in 1..MaxSatSide, W2 \in 1..MaxSatSide, rot2 \in {37, 53},
        x \in 0..(5 * MaxSatPos), y \in 0..(5 * MaxSatPos) }

InitTouch ==
    /\ args \in TouchArgsAligned \cup TouchArgsAngled
    /\ ret = NoRet
    /\ self = RectanglePacker(MaxDiameter * Scale, MaxSide * Scale,
                              MaxSide * Scale, 0, 0)
    /\ pc = "call"
    /\ rotation = 0
    /\ i = 0
    /\ j = 0
    /\ best_rects = << >>
    /\ max_count = 0
    /\ results = << >>
    /\ valid_results = << >>
    /\ best = PackingResult
    /\ returned = << >>
    /\ best_marks = NoMarks
    /\ phases = << >>

SpecTouch == InitTouch /\ [][NextSat]_vars

\* gap = min(proj1[1], proj2[1]) - max(proj1[0], proj2[0]) of the
\* projections of two polygons on an axis
ProjectionGap(axis, corners1, corners2) ==
    Min(project_polygon(axis, corners1)[2], project_polygon(axis, corners2)[2])
        - Max(project_polygon(axis, corners1)[1], project_polygon(axis, corners2)[1])

\* the axes sat_rectangles_collide tests: the edge normals of both polygons
TestedAxes(corners1, corners2) ==
    { get_edge_normal(c[k + 1], c[((k + 1) % 4) + 1]) :
        k \in 0..3, c \in {corners1, corners2} }

\* the gaps of two rectangles on the tested axes
AxisGaps(rect1, rect2) ==
    { ProjectionGap(axis, get_corners(rect1), get_corners(rect2)) :
        axis \in TestedAxes(get_corners(rect1), get_corners(rect2)) }

\* C11: with a tolerance below epsilon, rectangles_overlap does not report
\* two rectangles whose projection gap is exactly 0 on some tested axis.
C11_TouchingNotOverlap ==
    (/\ ret.ab # << >>
     /\ args.tolerance * EpsDen < 1
     /\ 0 \in AxisGaps(args.rect1, args.rect2))
        => ret.ab = << FALSE >>

\* the call was made on an axis-aligned and an angled rectangle that touch:
\* gap 0 on one axis, no negative gap
C11_Witness ==
    /\ ret.ab = << FALSE >>
    /\ args.tolerance = 0
    /\ args.rect2.rotation \in {37, 53}
    /\ 0 \in AxisGaps(args.rect1, args.rect2)
    /\ \A g \in AxisGaps(args.rect1, args.rect2) : g >= 0

\* C12 as stated: with zero tolerance, a gap of 0.01 mm (1 unit) on some
\* tested axis and a gap >= 0 on all other axes is reported as overlapping.
C12_AsStated ==
    (/\ ret.ab # << >>
     /\ args.tolerance = 0
     /\ 1 \in AxisGaps(args.rect1, args.rect2)
     /\ \A g \in AxisGaps(args.rect1, args.rect2) : g >= 0)
        => ret.ab = << TRUE >>

\* C12 amended: with zero tolerance, a gap of 0.01 mm (1 unit) on some
\* tested axis and a gap above epsilon on all other axes is reported as
\* overlapping.
C12_GapAboveEpsilon ==
    (/\ ret.ab # << >>
     /\ args.tolerance = 0
     /\ 1 \in AxisGaps(args.rect1, args.rect2)
     /\ \A g \in AxisGaps(args.rect1, args.rect2) : g * EpsDen > 1)
        => ret.ab = << TRUE >>

\* the call was made on two rectangles whose smallest gap is 0.01 mm
C12_Witness ==
    /\ ret.ab = << TRUE >>
    /\ args.tolerance = 0
    /\ 1 \in AxisGaps(args.rect1, args.rect2)
    /\ \A g \in AxisGaps(args.rect1, args.rect2) : g >= 1

(***************************************************************************)
(* Clearance between axis-aligned rectangles                               *)
(***************************************************************************)

\* twice the distance between the x-extents (y-extents) of two axis-aligned
\* rectangles, 0 when the extents meet
TwiceSeparationX(rect1, rect2) ==
    Max(0, 2 * Abs(rect2.position.x - rect1.position.x)
            - (IF rect1.rotation = 90 THEN rect1.height ELSE rect1.width)
            - (IF rect2.rotation = 90 THEN rect2.height ELSE rect2.width))

TwiceSeparationY(rect1, rect2) ==
    Max(0, 2 * Abs(rect2.position.y - rect1.position.y)
            - (IF rect1.rotation = 90 THEN rect1.width ELSE rect1.height)
            - (IF rect2.rotation = 90 THEN rect2.width ELSE rect2.height))

\* four times the squared Euclidean distance between two axis-aligned
\* rectangles
FourSquaredSeparation(rect1, rect2) ==
    TwiceSeparationX(rect1, rect2) * TwiceSeparationX(rect1, rect2)
        + TwiceSeparationY(rect1, rect2) * TwiceSeparationY(rect1, rect2)

\* C17: for a tolerance of at least epsilon and two rectangles with
\* rotation in {0, 90}, rectangles_overlap returns TRUE whenever the
\* Euclidean distance between the rectangles is below the tolerance.
C17_ClearanceConservative ==
    (/\ ret.ab # << >>
     /\ args.tolerance * EpsDen >= 1
     /\ args.rect1.rotation \in {0, 90}
     /\ args.rect2.rotation \in {0, 90}
     /\ FourSquaredSeparation(args.rect1, args.rect2)
            < 4 * args.tolerance * args.tolerance)
        => ret.ab = << TRUE >>

\* the call was made on two disjoint axis-aligned rectangles separated
\* diagonally by less than the tolerance
C17_Witness ==
    /\ ret.ab = << TRUE >>
    /\ args.tolerance * EpsDen >= 1
    /\ args.rect1.rotation \in {0, 90}
    /\ args.rect2.rotation \in {0, 90}
    /\ TwiceSeparationX(args.rect1, args.rect2) > 0
    /\ TwiceSeparationY(args.rect1, args.rect2) > 0
    /\ FourSquaredSeparation(args.rect1, args.rect2)
            < 4 * args.tolerance * args.tolerance

\* rect2 is the neighbour of rect1 in the base grid of a packer with the
\* sides of rect1 and the given tolerance: same row, next column, or same
\* column, next row
LatticeNeighbours(rect1, rect2, tolerance) ==
    LET packer == RectanglePacker(MaxDiameter * Scale, rect1.width,
                                  rect1.height, tolerance, 0)
        d == GridDims(packer, rect1.rotation)
    IN  /\ rect1.rotation \in {0, 90}
        /\ \/ rect2 = [rect1 EXCEPT !.position =
                            Position(rect1.position.x + d.grid_step_x,
                                     rect1.position.y)]
           \/ rect2 = [rect1 EXCEPT !.position =
                            Position(rect1.position.x,
                                     rect1.position.y + d.grid_step_y)]

\* C18: for a tolerance of at least epsilon, rectangles_overlap does not
\* report two base-orientation rectangles at adjacent base-grid positions
\* (centres one grid step apart in a row or a column) as colliding.
C18_LatticeNeighboursClear ==
    (/\ ret.ab # << >>
     /\ args.tolerance * EpsDen >= 1
     /\ LatticeNeighbours(args.rect1, args.rect2, args.tolerance))
        => ret.ab = << FALSE >>

(***************************************************************************)
(* Termination of find_optimal_packing                                     *)
(***************************************************************************)

\* the control position of a call
Control == << pc, rotation, i, j >>

\* a step of a call that has begun and not yet returned.  The program is
\* sequential: while a call runs, its next statement is executed and moves
\* the control position.  Under [][Next]_vars these are the steps
\* OffsetStep, StrictGridReturn, SelectBest and ReturnBest, one of which is
\* enabled at every position of a running call.
Advance ==
    /\ pc \in {"grid", "select", "efficiency"}
    /\ pc' \in {"grid", "select", "efficiency", "done"}
    /\ rotation' \in {0, 90}
    /\ i' \in 0..steps_x
    /\ j' \in 0..(steps_y - 1)
    /\ Control' # Control

SpecLive == Spec /\ WF_Control(Advance)

\* the increments of the while loops of a packer: the edge fills advance by
\* ortho_step_x or ortho_step_y, the centre strips by grid_step_y, the
\* systematic scan by scan_step
LoopSteps(packer) ==
    { GridDims(packer, rot)[f] :
        rot \in {0, 90},
        f \in {"ortho_step_x", "ortho_step_y", "grid_step_x", "grid_step_y"} }
    \cup { Min(packer.rect_width, packer.rect_height) \div 2 }

\* C13: every call of find_optimal_packing terminates (a call that has begun
\* reaches its return), and every while loop advances by a positive step.
C13_Termination ==
    /\ [](\A step \in LoopSteps(self) : step > 0)
    /\ (pc = "grid") ~> (pc = "done")

\* a call has returned after the edge-fill loops accepted rectangles for one
\* of its candidates and the centre-strip loops for one of its candidates
C13_Witness ==
    /\ pc = "done"
    /\ \E n \in DOMAIN results : phases[n].bottom > phases[n].base
    /\ \E n \in DOMAIN results : phases[n].center_bottom > phases[n].bottom

(***************************************************************************)
(* Order of the rectangles of a result                                     *)
(***************************************************************************)

\* lexicographic order of pairs
Before(k1, k2) == k1[1] < k2[1] \/ (k1[1] = k2[1] /\ k1[2] < k2[2])

KeyYX(rect) == << rect.position.y, rect.position.x >>
KeyXY(rect) == << rect.position.x, rect.position.y >>
KeyDownXY(rect) == << -rect.position.x, rect.position.y >>
KeyDownYX(rect) == << -rect.position.y, rect.position.x >>

\* the elements lo+1..hi of rects have their rotation in rots and are in
\* strictly increasing order of key
Segment(rects, lo, hi, rots, key(_)) ==
    /\ lo <= hi
    /\ hi <= Len(rects)
    /\ \A m \in (lo + 1)..hi : rects[m].rotation \in rots
    /\ \A m \in (lo + 1)..hi : \A n \in (m + 1)..hi :
          Before(key(rects[m]), key(rects[n]))

\* the offset index i (j) of the base grid that holds rect: the offset is
\* the remainder of the lower left corner, from start_x (start_y), modulo
\* the grid step
OffsetIndexX(packer, d, rect) ==
    ((rect.position.x - d.w \div 2 - (-packer.radius - d.w)) % d.grid_step_x)
        \div (d.grid_step_x \div steps_x)

OffsetIndexY(packer, d, rect) ==
    ((rect.position.y - d.h \div 2 - (-packer.radius - d.h)) % d.grid_step_y)
        \div (d.grid_step_y \div steps_y)

\* the rectangles of a candidate of base rotation rot with marks m are in
\* the order of the passes that accepted them
AcceptanceOrder(packer, rot, rects, m) ==
    LET d == GridDims(packer, rot)
    IN  /\ m.base >= 1
        /\ SubSeq(rects, 1, m.base)
              = BaseGrid(packer, d, OffsetIndexX(packer, d, rects[1]),
                         OffsetIndexY(packer, d, rects[1]))
        /\ Segment(rects, 0, m.base, {d.rotation}, KeyYX)
        /\ Segment(rects, m.base, m.right, {d.alt_rotation}, KeyXY)
        /\ Segment(rects, m.right, m.left, {d.alt_rotation}, KeyDownXY)
        /\ Segment(rects, m.left, m.top, {d.alt_rotation}, KeyYX)
        /\ Segment(rects, m.top, m.bottom, {d.alt_rotation}, KeyDownYX)
        /\ Segment(rects, m.bottom, m.center_top, {d.rotation}, KeyYX)
        /\ Segment(rects, m.center_top, m.center_bottom, {d.rotation}, KeyDownYX)
        /\ Segment(rects, m.center_bottom, Len(rects), {0, 90}, KeyYX)

\* C14: when find_optimal_packing returns, the rectangles of every candidate
\* are in acceptance order: base grid of one offset (rows outer, columns
\* inner), then right, left, top, bottom edge fills, then top-centre and
\* bottom-centre strips, then the systematic gap fill (y outer, x inner);
\* the returned sequence is a candidate's sequence unchanged.
C14_AcceptanceOrder ==
    pc = "done" =>
        /\ \A n \in DOMAIN results :
              \E rot \in {0, 90} :
                  /\ results[n].strategy = StrategyLabel(rot)
                  /\ results[n].rectangles # << >> =>
                        AcceptanceOrder(self, rot, results[n].rectangles,
                                        phases[n])
        /\ \E n \in DOMAIN results :
              returned[Len(returned)].rectangles = results[n].rectangles

\* the returned sequence has a base grid of at least two rows and two
\* columns followed by rectangles of later passes
C14_Witness ==
    /\ pc = "done"
    /\ \E n \in DOMAIN results :
          /\ returned[Len(returned)].rectangles = results[n].rectangles
          /\ Len(results[n].rectangles) > phases[n].base
          /\ \E a, b \in 1..phases[n].base :
                /\ results[n].rectangles[a].position.x
                      # results[n].rectangles[b].position.x
                /\ results[n].rectangles[a].position.y
                      # results[n].rectangles[b].position.y

(***************************************************************************)
(* The base grid against the lattice it is cut from                        *)
(***************************************************************************)

\* number of lattice columns and rows examined beyond both ends of the
\* ranges of the base grid
MaxMargin == 1

\* cols and rows of the base grid
GridCols(packer, d) ==
    IntTrunc(packer.circle_diameter + 2 * d.w, d.grid_step_x) + 2

GridRows(packer, d) ==
    IntTrunc(packer.circle_diameter + 2 * d.h, d.grid_step_y) + 2

\* lower left corner of the lattice cell (c, r) of offset (oi, oj)
LatticeCorner(packer, d, oi, oj, c, r) ==
    Position(-packer.radius - d.w + c * d.grid_step_x
                + (d.grid_step_x \div steps_x) * oi,
             -packer.radius - d.h + r * d.grid_step_y
                + (d.grid_step_y \div steps_y) * oj)

\* the rectangle of the lattice cell (c, r) of offset (oi, oj)
LatticeRect(packer, d, oi, oj, c, r) ==
    Rectangle(Position(LatticeCorner(packer, d, oi, oj, c, r).x + d.w \div 2,
                       LatticeCorner(packer, d, oi, oj, c, r).y + d.h \div 2),
              packer.rect_width, packer.rect_height, d.rotation)

\* the fitting rectangles of the lattice of offset (oi, oj), MaxMargin
\* columns and rows beyond the ranges of the base grid
FittingLattice(packer, d, oi, oj) ==
    { rect \in { LatticeRect(packer, d, oi, oj, c, r) :
                    c \in (-MaxMargin)..(GridCols(packer, d) - 1 + MaxMargin),
                    r \in (-MaxMargin)..(GridRows(packer, d) - 1 + MaxMargin) } :
        rectangle_fits_in_circle(packer, rect) }

\* the cells just beyond the ranges lie outside the circle: those of
\* column -1 (row -1) end before -radius, those of column cols (row rows)
\* begin after radius; cells further out lie further out
BeyondRangesOutside(packer, d, oi, oj) ==
    /\ d.grid_step_x > 0
    /\ d.grid_step_y > 0
    /\ LatticeCorner(packer, d, oi, oj, -1, -1).x + d.w < -packer.radius
    /\ LatticeCorner(packer, d, oi, oj, -1, -1).y + d.h < -packer.radius
    /\ LatticeCorner(packer, d, oi, oj, GridCols(packer, d),
                     GridRows(packer, d)).x > packer.radius
    /\ LatticeCorner(packer, d, oi, oj, GridCols(packer, d),
                     GridRows(packer, d)).y > packer.radius

\* the base grid grid is complete for its lattice and holds only fitting
\* rectangles
GridComplete(packer, d, oi, oj, grid) ==
    /\ { grid[n] : n \in DOMAIN grid } = FittingLattice(packer, d, oi, oj)
    /\ \A n \in DOMAIN grid : rectangle_fits_in_circle(packer, grid[n])
    /\ BeyondRangesOutside(packer, d, oi, oj)

\* C20: at every offset (i, j) of the search (each call of a packer visits
\* the same offsets, so those of its first call), the base grid holds exactly
\* the rectangles of the lattice, in base orientation, that fit in the
\* effective circle: the ranges [0, cols) and [0, rows) omit no fitting
\* lattice rectangle, and every rectangle of the grid fits.
C20_BaseGridComplete ==
    (pc = "grid" /\ i < steps_x /\ returned = << >>) =>
        GridComplete(self, GridDims(self, rotation), i, j,
                     BaseGrid(self, GridDims(self, rotation), i, j))

\* the search is at an offset that is shifted in both directions, under a
\* safe zone, where the base grid holds several rectangles
C20_Witness ==
    /\ pc = "grid"
    /\ i > 0 /\ i < steps_x
    /\ j > 0
    /\ self.safe_zone > 0
    /\ Len(BaseGrid(self, GridDims(self, rotation), i, j)) >= 2

(***************************************************************************)
(* Scenario B: find_optimal_packing on a circle that has room for one      *)
(* rectangle at most                                                       *)
(***************************************************************************)

InitScenarioB ==
    /\ self = RectanglePacker(20 * Scale, 15 * Scale, 10 * Scale, 0, 0)
    /\ pc = "idle"
    /\ rotation = 0
    /\ i = 0
    /\ j = 0
    /\ best_rects = << >>
    /\ max_count = 0
    /\ results = << >>
    /\ valid_results = << >>
    /\ best = PackingResult
    /\ returned = << >>
    /\ best_marks = NoMarks
    /\ phases = << >>
    /\ args = NoArgs
    /\ ret = NoRet

SpecScenarioB == InitScenarioB /\ [][Next]_vars

\* C16: for diameter 20, sides 15 x 10, tolerance 0 and safe zone 0, every
\* returned result has count 0 or 1, and its rectangles (as those of every
\* candidate and of the list under construction) number at most one, lie
\* in the effective circle, do not overlap and have rotation 0 or 90.
C16_ScenarioB ==
    /\ \A n \in 1..Len(returned) :
          /\ returned[n].count \in {0, 1}
          /\ returned[n].count = Len(returned[n].rectangles)
    /\ \A rects \in HeldLists :
          /\ Len(rects) <= 1
          /\ \A k \in 1..Len(rects) :
                /\ rectangle_fits_in_circle(self, rects[k])
                /\ rects[k].rotation \in {0, 90}
          /\ validate_no_overlaps(self, rects)

\* the packing of Scenario B was returned and holds one rectangle
C16_Witness ==
    /\ pc = "done"
    /\ self.circle_diameter = 20 * Scale
    /\ returned[Len(returned)].count = 1
    /\ Len(returned[Len(returned)].rectangles) = 1

(***************************************************************************)
(* find_optimal_packing on packers whose rectangle barely fits, called     *)
(* again after the tolerance was increased                                 *)
(***************************************************************************)

\* largest diameter of these packers, in millimetres
MaxTightDiameter == 6

\* a rectangle of sides w and h centred at the origin fits in the effective
\* circle of the packer
FitsCentred(packer, w, h) ==
    /\ packer.effective_radius > 0
    /\ w * w + h * h <= 4 * packer.effective_radius * packer.effective_radius

\* the packers whose rectangle fits centred at the origin but would not if
\* both sides were one millimetre longer
TightPackers ==
    { packer \in { RectanglePacker(D * Scale, W * Scale, H * Scale, T * Scale,
                                   S * Scale) :
                      D \in 1..MaxTightDiameter, W \in 1..MaxTightDiameter,
                      H \in 1..MaxTightDiameter, T \in 0..MaxTolerance,
                      S \in 0..MaxSafeZone } :
        /\ FitsCentred(packer, packer.rect_width, packer.rect_height)
        /\ ~FitsCentred(packer, packer.rect_width + Scale,
                        packer.rect_height + Scale) }

InitTight ==
    /\ self \in TightPackers
    /\ pc = "idle"
    /\ rotation = 0
    /\ i = 0
    /\ j = 0
    /\ best_rects = << >>
    /\ max_count = 0
    /\ results = << >>
    /\ valid_results = << >>
    /\ best = PackingResult
    /\ returned = << >>
    /\ best_marks = NoMarks
    /\ phases = << >>
    /\ args = NoArgs
    /\ ret = NoRet

\* after a call has returned, a packer with a larger tolerance and otherwise
\* the same parameters is constructed; returned keeps the results so far
NewTolerance ==
    /\ pc = "done"
    /\ Len(returned) < MaxRuns
    /\ \E T \in 1..MaxTolerance :
          /\ T * Scale > self.tolerance
          /\ self' = RectanglePacker(self.circle_diameter, self.rect_width,
                                     self.rect_height, T * Scale,
                                     self.safe_zone)
    /\ pc' = "idle"
    /\ UNCHANGED << rotation, i, j, best_rects, max_count, results,
                    valid_results, best, returned, best_marks, phases, args,
                    ret >>

NextTight == Next \/ NewTolerance

SpecTight == InitTight /\ [][NextTight]_vars

\* C15: the packers of a behaviour differ in their tolerance only, which
\* never decreases; a later call does not return a larger count than an
\* earlier one.
C15_ToleranceMonotone ==
    \A m \in DOMAIN returned : \A n \in DOMAIN returned :
        m < n => returned[n].count <= returned[m].count

\* the scan positions of _systematic_gap_fill on one axis
ScanPositions(packer) ==
    { -packer.radius + k * (Min(packer.rect_width, packer.rect_height) \div 2) :
        k \in 0..(packer.circle_diameter
                    \div (Min(packer.rect_width, packer.rect_height) \div 2)) }

\* no rectangle of the scan grid can be added to rects: each one does not
\* fit or collides with a rectangle of rects
Saturated(packer, rects) ==
    \A x \in ScanPositions(packer) : \A y \in ScanPositions(packer) :
        \A rot \in {0, 90} :
            TryPlace(packer, rects,
                     Rectangle(Position(x, y), packer.rect_width,
                               packer.rect_height, rot)) = rects

\* C19: the result returned by find_optimal_packing admits no further
\* rectangle on the systematic scan grid, whether or not the offset search
\* accepted a base-grid rectangle.
C19_Saturation ==
    pc = "done" => Saturated(self, returned[Len(returned)].rectangles)

(***************************************************************************)
(* The collision test against reference tests                              *)
(***************************************************************************)

\* a SAT test on the normals of the first two edges of each rectangle, which
\* are not parallel
TwoAxesCollide(rect1_corners, rect2_corners, tolerance) ==
    \A n \in 0..1 : SatAxesOverlap(rect1_corners, rect2_corners, tolerance, n)

\* C26: the result of sat_rectangles_collide, which tests the normals of all
\* four edges of each rectangle, equals that of the test on two non-parallel
\* edge normals per rectangle, for every tolerance (in the exact arithmetic
\* of the model; the projections on opposite normals are mirror images).
C26_TwoAxisEquivalence ==
    ret.ab # << >> =>
        ret.ab = << TwoAxesCollide(get_corners(args.rect1),
                                   get_corners(args.rect2), args.tolerance) >>

\* the call was made under a positive tolerance on an axis-aligned and an
\* angled rectangle that only an edge normal of the angled one separates
C26_Witness ==
    /\ ret.ab = << FALSE >>
    /\ args.tolerance > 0
    /\ args.rect1.rotation \in {0, 90}
    /\ args.rect2.rotation \in {37, 53}
    /\ \A n \in 0..3 :
          projections_overlap(
              project_polygon(get_edge_normal(get_corners(args.rect1)[n + 1],
                                              get_corners(args.rect1)[((n + 1) % 4) + 1]),
                              get_corners(args.rect1)),
              project_polygon(get_edge_normal(get_corners(args.rect1)[n + 1],
                                              get_corners(args.rect1)[((n + 1) % 4) + 1]),
                              get_corners(args.rect2)),
              args.tolerance)
\* the candidates and the lists of placed rectangles of the direct calls of
\* rectangle_overlaps_any: axis-aligned rectangles, lists of up to two
\* rectangles of one shape and orientation in one row or one column
AlignedRects(positions) ==
    { r \in SatRects(positions) : r.rotation \in {0, 90} }

PlacedLists ==
    { << >> }
    \cup { << a >> : a \in AlignedRects(SatPositions) }
    \cup UNION { { << a, [a EXCEPT !.position = p] >> :
                     p \in { q \in SatPositions :
                               q.x = a.position.x \/ q.y = a.position.y } } :
                   a \in AlignedRects(SatPositions) }

InitAny ==
    /\ args \in { [rect |-> r, placed_rectangles |-> placed,
                    tolerance |-> T * HalfMm] :
                      r \in AlignedRects({Position(0, 0)}),
                      placed \in PlacedLists, T \in 0..MaxSatTol }
    /\ ret = [each |-> << >>, any |-> << >>]
    /\ self = RectanglePacker(MaxDiameter * Scale, MaxSide * Scale,
                              MaxSide * Scale, 0, 0)
    /\ pc = "call"
    /\ rotation = 0
    /\ i = 0
    /\ j = 0
    /\ best_rects = << >>
    /\ max_count = 0
    /\ results = << >>
    /\ valid_results = << >>
    /\ best = PackingResult
    /\ returned = << >>
    /\ best_marks = NoMarks
    /\ phases = << >>

\* rectangles_overlap(rect, placed_rect, tolerance) is called for each
\* placed rectangle
OverlapEach ==
    /\ pc = "call"
    /\ ret.each = << >>
    /\ ret' = [ret EXCEPT !.each =
                  << [n \in 1..Len(args.placed_rectangles) |->
                        rectangles_overlap(args.rect, args.placed_rectangles[n],
                                           args.tolerance)] >>]
    /\ UNCHANGED << args, packer_vars >>

\* rectangle_overlaps_any(rect, placed_rectangles, tolerance) is called
OverlapsAny ==
    /\ pc = "call"
    /\ ret.any = << >>
    /\ ret' = [ret EXCEPT !.any =
                  << rectangle_overlaps_any(args.rect, args.placed_rectangles,
                                            args.tolerance) >>]
    /\ UNCHANGED << args, packer_vars >>

NextAny == OverlapEach \/ OverlapsAny

SpecAny == InitAny /\ [][NextAny]_vars

\* <<min, max>> of the x-extent (y-extent) of an axis-aligned rectangle
ExtentX(rect) ==
    << rect.position.x
         - (IF rect.rotation = 90 THEN rect.height ELSE rect.width) \div 2,
       rect.position.x
         + (IF rect.rotation = 90 THEN rect.height ELSE rect.width) \div 2 >>

ExtentY(rect) ==
    << rect.position.y
         - (IF rect.rotation = 90 THEN rect.width ELSE rect.height) \div 2,
       rect.position.y
         + (IF rect.rotation = 90 THEN rect.width ELSE rect.height) \div 2 >>

\* the gap min(max1, max2) - max(min1, min2) of two extents exceeds the
\* threshold: 1e-6 for a tolerance below 1e-6, -tolerance - 1e-6 otherwise
ExceedsThreshold(e1, e2, tolerance) ==
    IF tolerance * EpsDen < 1
    THEN (Min(e1[2], e2[2]) - Max(e1[1], e2[1])) * EpsDen > 1
    ELSE (Min(e1[2], e2[2]) - Max(e1[1], e2[1]) + tolerance) * EpsDen > -1

\* the bounding boxes of two axis-aligned rectangles overlap on both axes
BoxesOverlap(rect1, rect2, tolerance) ==
    /\ ExceedsThreshold(ExtentX(rect1), ExtentX(rect2), tolerance)
    /\ ExceedsThreshold(ExtentY(rect1), ExtentY(rect2), tolerance)

InitMono ==
    /\ args \in { [rect1 |-> r1, rect2 |-> r2, tolerance |-> T1 * HalfMm,
                    larger |-> T2 * HalfMm] :
                      r1 \in SatRects({Position(0, 0)}),
                      r2 \in SatRects(SatPositions),
                      T1 \in 0..MaxSatTol, T2 \in 0..MaxSatTol }
    /\ args.tolerance <= args.larger
    /\ ret = [ab |-> << >>, larger |-> << >>]
    /\ self = RectanglePacker(MaxDiameter * Scale, MaxSide * Scale,
                              MaxSide * Scale, 0, 0)
    /\ pc = "call"
    /\ rotation = 0
    /\ i = 0
    /\ j = 0
    /\ best_rects = << >>
    /\ max_count = 0
    /\ results = << >>
    /\ valid_results = << >>
    /\ best = PackingResult
    /\ returned = << >>
    /\ best_marks = NoMarks
    /\ phases = << >>

\* rectangles_overlap(rect1, rect2, larger) is called
OverlapLarger ==
    /\ pc = "call"
    /\ ret.larger = << >>
    /\ ret' = [ret EXCEPT !.larger =
                  << rectangles_overlap(args.rect1, args.rect2, args.larger) >>]
    /\ UNCHANGED << args, packer_vars >>

NextMono == OverlapAB \/ OverlapLarger

SpecMono == InitMono /\ [][NextMono]_vars

\* C29: when rectangles_overlap is TRUE under a tolerance it is TRUE under
\* every larger tolerance, also from a tolerance below epsilon to one above.
C29_CollisionMonotone ==
    (ret.ab = << TRUE >> /\ ret.larger # << >>) => ret.larger = << TRUE >>

\* both calls were made on an angled pair that overlaps, the first with
\* tolerance 0 (the rule below epsilon) and the second with a positive
\* tolerance (the rule above)
C29_Witness ==
    /\ ret.ab = << TRUE >>
    /\ ret.larger = << TRUE >>
    /\ args.tolerance = 0
    /\ args.larger > 0
    /\ args.rect2.rotation \in {37, 53}

(***************************************************************************)
(* find_optimal_packing on packers whose circle has diameter 0             *)
(***************************************************************************)

InitZero ==
    /\ self \in { RectanglePacker(0, s[1] * Scale, s[2] * Scale, T * Scale,
                                   S * Scale) :
                      s \in Shapes, T \in 0..MaxTolerance, S \in 0..MaxSafeZone }
    /\ pc = "idle"
    /\ rotation = 0
    /\ i = 0
    /\ j = 0
    /\ best_rects = << >>
    /\ max_count = 0
    /\ results = << >>
    /\ valid_results = << >>
    /\ best = PackingResult
    /\ returned = << >>
    /\ best_marks = NoMarks
    /\ phases = << >>
    /\ args = NoArgs
    /\ ret = NoRet

SpecZero == InitZero /\ [][Next]_vars

\* C28: for a circle of diameter 0 the returned result has total_area 0,
\* efficiency 0, waste 100 and count 0; the metrics are set without a
\* division whenever total_area <= 0.
C28_ZeroAreaCircle ==
    \A n \in DOMAIN returned :
        /\ returned[n].total_area <= 0 =>
              /\ returned[n].efficiency = 0
              /\ returned[n].waste = 100 * FScale
        /\ self.circle_diameter = 0 =>
              /\ returned[n].total_area = 0
              /\ returned[n].count = 0
              /\ returned[n].rectangles = << >>

\* find_optimal_packing has returned for a circle of diameter 0 with the
\* metrics of the else branch
C28_Witness ==
    /\ pc = "done"
    /\ self.circle_diameter = 0
    /\ returned[Len(returned)].circle = Circle(0, Position(0, 0))
    /\ returned[Len(returned)].total_area = 0
    /\ returned[Len(returned)].waste = 100 * FScale

(***************************************************************************)
(* The choice between the two candidates                                   *)
(***************************************************************************)

\* C30: when both candidates pass the validation with equal counts, the
\* candidate of base orientation 0 is chosen; in every case the chosen and
\* returned result carries the rectangles and the strategy label of one
\* candidate, and that label names the base orientation the candidate was
\* built for (0 for the first call, 90 for the second).
C30_OrientationTieBreak ==
    pc \in {"efficiency", "done"} =>
        /\ Len(results) = 2
        /\ results[1].strategy = StrategyLabel(0)
        /\ results[2].strategy = StrategyLabel(90)
        /\ (Len(valid_results) = 2 /\ results[1].count = results[2].count) =>
              /\ best.strategy = StrategyLabel(0)
              /\ best.rectangles = results[1].rectangles
        /\ \E n \in DOMAIN results :
              /\ best.strategy = results[n].strategy
              /\ best.rectangles = results[n].rectangles
              /\ best.count = results[n].count
        /\ pc = "done" =>
              /\ returned[Len(returned)].strategy = best.strategy
              /\ returned[Len(returned)].rectangles = best.rectangles

\* a result was returned after both candidates passed the validation with
\* equal positive counts and different rectangles
C30_Witness ==
    /\ pc = "done"
    /\ Len(valid_results) = 2
    /\ results[1].count = results[2].count
    /\ results[1].count > 0
    /\ results[1].rectangles # results[2].rectangles
    /\ returned[Len(returned)].strategy = StrategyLabel(0)
    /\ returned[Len(returned)].rectangles = results[1].rectangles

(***************************************************************************)
(* The frame of the systematic gap fill                                    *)
(***************************************************************************)

\* seq has the sequence head as a prefix
IsPrefix(head, seq) ==
    /\ Len(head) <= Len(seq)
    /\ SubSeq(seq, 1, Len(head)) = head

ScanIndices(n) ==
    (phases[n].center_bottom + 1)..Len(results[n].rectangles)

\* C24: among the rectangles accepted by the systematic scan no two share a
\* centre (at most one per scan point), all have rotation 0 or 90, and one
\* of rotation 90 is there only if the rectangle of rotation 0 at the same
\* centre does not fit in the effective circle or collides with the list
\* as it stood when the point was visited (the rectangles before it).
C24_ScanOrientationPreference ==
    \A n \in DOMAIN results :
        LET rects == results[n].rectangles
        IN  \A k \in ScanIndices(n) :
                /\ \A m \in ScanIndices(n) :
                      m # k => rects[m].position # rects[k].position
                /\ rects[k].rotation \in {0, 90}
                /\ rects[k].rotation = 90 =>
                      LET rect0 == Rectangle(rects[k].position, self.rect_width,
                                             self.rect_height, 0)
                      IN  \/ ~rectangle_fits_in_circle(self, rect0)
                          \/ rectangle_overlaps_any(rect0, SubSeq(rects, 1, k - 1),
                                                    self.tolerance)

\* the systematic scan accepted a rectangle of rotation 90 for one candidate
\* and one of rotation 0 for a candidate
C24_Witness ==
    /\ \E n \in DOMAIN results : \E k \in ScanIndices(n) :
          results[n].rectangles[k].rotation = 90
    /\ \E n \in DOMAIN results : \E k \in ScanIndices(n) :
          results[n].rectangles[k].rotation = 0

(***************************************************************************)
(* The centre strips                                                       *)
(***************************************************************************)

\* the base orientation of candidate n: the first call is for 0, the
\* second for 90
BaseRotation(n) == IF n = 1 THEN 0 ELSE 90

\* the candidate of a strip at step q (0 for its start): dir is 1 for the
\* top strip and -1 for the bottom one, b the bounds of the base grid
StripCandidate(d, b, dir, q) ==
    LET start == IF dir = 1 THEN b.max_y + self.tolerance + d.h \div 2
                 ELSE b.min_y - self.tolerance - d.h \div 2
    IN  Rectangle(Position((b.min_x + b.max_x) \div 2,
                           start + dir * q * d.grid_step_y),
                  self.rect_width, self.rect_height, d.rotation)

\* the rectangles lo+1..hi of rects are the candidates of the strip at the
\* steps 0, 1, ... and the candidate of the next step is outside the range
\* of the loop or is rejected against the list as it stood
StripOf(rects, d, b, dir, lo, hi) ==
    /\ \A k \in (lo + 1)..hi : rects[k] = StripCandidate(d, b, dir, k - lo - 1)
    /\ LET next == StripCandidate(d, b, dir, hi - lo)
       IN  \/ dir = 1 /\ next.position.y + d.h \div 2 > self.radius
           \/ dir = -1 /\ next.position.y - d.h \div 2 < -self.radius
           \/ ~rectangle_fits_in_circle(self, next)
           \/ rectangle_overlaps_any(next, SubSeq(rects, 1, hi), self.tolerance)

\* C23: in the list of each candidate the rectangles of the top strip, then
\* those of the bottom strip, have the base orientation and stand in one
\* column at the middle of the bounds of the base grid (not of the list
\* after the edge fills), at consecutive steps of step_y outward from
\* max_y + tolerance + h/2 and min_y - tolerance - h/2; each strip ends
\* where the next candidate leaves the loop range, does not fit or collides.
C23_CenterStrips ==
    \A n \in DOMAIN results :
        LET m == phases[n]
            rects == results[n].rectangles
            d == GridDims(self, BaseRotation(n))
        IN  m.base > 0 =>
              LET b == GridBounds(d, SubSeq(rects, 1, m.base))
              IN  /\ m.bottom <= m.center_top
                  /\ m.center_top <= m.center_bottom
                  /\ m.center_bottom <= Len(rects)
                  /\ StripOf(rects, d, b, 1, m.bottom, m.center_top)
                  /\ StripOf(rects, d, b, -1, m.center_top, m.center_bottom)

\* a candidate has a rectangle in its top strip and one in its bottom
\* strip, in a column off the vertical diameter of the circle
C23_Witness ==
    \E n \in DOMAIN results :
        LET m == phases[n]
            rects == results[n].rectangles
        IN  /\ m.base > 0
            /\ m.center_top > m.bottom
            /\ m.center_bottom > m.center_top
            /\ rects[m.center_top].position.x # 0
            /\ rects[m.center_bottom].position.x # 0

(***************************************************************************)
(* Greedy acceptance in the fill passes                                    *)
(***************************************************************************)

\* the lists after the passes of one offset grow by appending only, and
\* rects begins with the last of them, cut where the marks m say
AppendOnly(st, rects, m) ==
    /\ st # NoStages
    /\ IsPrefix(st.base, st.right)
    /\ IsPrefix(st.right, st.left)
    /\ IsPrefix(st.left, st.top)
    /\ IsPrefix(st.top, st.bottom)
    /\ IsPrefix(st.bottom, st.center_top)
    /\ IsPrefix(st.center_top, st.center_bottom)
    /\ IsPrefix(st.center_bottom, rects)
    /\ m = [k \in DOMAIN st |-> Len(st[k])]

\* C22: in the list of every candidate each rectangle behind the base grid
\* (edge fills, centre strips, systematic scan) fits in the effective circle
\* and does not collide, under the tolerance, with the list as it stood when
\* it was accepted, that is with the rectangles before it; the rectangles
\* of the edge fills have the alternate orientation; and when the call
\* returns, the list of every candidate begins with the lists of the passes
\* of its offset, each of which begins with the one before it.
C22_GreedyAcceptance ==
    /\ \A n \in DOMAIN results :
          LET m == phases[n]
              rects == results[n].rectangles
              d == GridDims(self, BaseRotation(n))
          IN  /\ m.base <= m.bottom
              /\ m.bottom <= Len(rects)
              /\ \A k \in (m.base + 1)..Len(rects) :
                    /\ rectangle_fits_in_circle(self, rects[k])
                    /\ ~rectangle_overlaps_any(rects[k], SubSeq(rects, 1, k - 1),
                                               self.tolerance)
              /\ \A k \in (m.base + 1)..m.bottom :
                    rects[k].rotation = d.alt_rotation
    /\ pc = "done" =>
          \A n \in DOMAIN results :
              LET rects == results[n].rectangles
                  d == GridDims(self, BaseRotation(n))
              IN  rects # << >> =>
                    AppendOnly(OffsetStages(self, BaseRotation(n),
                                            OffsetIndexX(self, d, rects[1]),
                                            OffsetIndexY(self, d, rects[1])),
                               rects, phases[n])

\* the call returned and the edge fills of a candidate accepted two
\* rectangles behind a base grid of several rectangles
C22_Witness ==
    /\ pc = "done"
    /\ \E n \in DOMAIN results :
          /\ phases[n].base > 1
          /\ phases[n].bottom > phases[n].base + 1

(***************************************************************************)
(* The maximum of the offset search                                        *)
(***************************************************************************)

\* the offsets in iteration order, i outer and j inner, numbered from 0
OffsetNumbers == 0..(steps_x * steps_y - 1)

\* the final list of offset number o: base grid, edge fills, centre strips
FinalList(packer, rot, o) ==
    LET st == OffsetStages(packer, rot, o \div steps_y, o % steps_y)
    IN  IF st = NoStages THEN << >> ELSE st.center_bottom

\* the pairs << o, length of the final list of offset number o >>
FinalLengths(packer, rot) ==
    { << o, Len(FinalList(packer, rot, o)) >> : o \in OffsetNumbers }

\* the pair of lens of the first offset, in iteration order, among those of
\* maximal length
FirstLongest(lens) ==
    CHOOSE e \in lens :
        \A f \in lens : f[2] <= e[2] /\ (f[1] < e[1] => f[2] < e[2])

\* the locals of the offset search are those of the pair e
BestIs(e) ==
    /\ max_count = e[2]
    /\ best_rects = FinalList(self, rotation, e[1])

\* C21: when the offset search of a base orientation is over, the best
\* list, which is the one handed to the systematic gap fill, is the final
\* list of the first offset in iteration order among those whose final list
\* is longest over all steps_x * steps_y offsets, and max_count is its
\* length.
C21_OffsetSearchMaximum ==
    (pc = "grid" /\ i = steps_x) =>
        BestIs(FirstLongest(FinalLengths(self, rotation)))

\* e is not the pair of the first offset and there is a pair of a later
\* offset with the same length
StrictlyBetterWithTie(lens, e) ==
    /\ e[1] > 0
    /\ e[2] > 0
    /\ \E f \in lens : f[1] = 0 /\ f[2] > 0 /\ f[2] < e[2]
    /\ \E f \in lens : f[1] > e[1] /\ f[2] = e[2]

\* the offset search is over; the first offset has a final list that is
\* not empty, the best list is longer, and a later offset has a final list
\* as long as the best one
C21_Witness ==
    /\ pc = "grid"
    /\ i = steps_x
    /\ max_count > 0
    /\ best_rects # << >>
    /\ LET lens == FinalLengths(self, rotation)
       IN  StrictlyBetterWithTie(lens, FirstLongest(lens))

====
